---- MODULE Spec2Model ----
(***************************************************************************)
(* Model of fse.py: the Statistics table (an insertion-ordered mapping     *)
(* symbol -> {symb, prob, cdf} with a running total) and the FSECoder      *)
(* built on it (encode folds a symbol sequence into one integer, decode    *)
(* unfolds an integer into a symbol sequence).                             *)
(*                                                                         *)
(* The loops of encode and decode are modelled one iteration per step;     *)
(* Statistics.__init__ and Statistics.get_by_cdf are operators computed    *)
(* as the code computes them (bisect_right is the library's binary         *)
(* search, not "the containing range").                                    *)
(***************************************************************************)
EXTENDS Integers, Sequences, FiniteSets, TLC

VARIABLES
    prob_dict,  \* the frequency mapping the coder was constructed from
    stats,      \* self.stats: the entries in insertion order, and total
    pc,         \* "idle", or the method whose loop is running
    last,       \* the call that completed last ("init": the constructor)
    symbs,      \* encode's argument (kept until the next call starts)
    pos,        \* encode's position in symbs
    enc,        \* the accumulator enc of encode and of decode
    enc_arg,    \* decode's argument (kept until the next call starts)
    out,        \* decode's local list symbs
    cdf_arg,    \* get_by_cdf's argument
    ret,        \* what the last call returned
    raised,     \* the exception the last call raised, or "none"
    chained,    \* where the current call's argument comes from
    memo        \* the caller's record of its last returned encode call

vars == <<prob_dict, stats, pc, last, symbs, pos, enc, enc_arg, out, cdf_arg,
          ret, raised, chained, memo>>

----------------------------------------------------------------------------
(* Bounds of the model.                                                    *)

\* largest frequency a symbol is given in a frequency mapping
MaxFreq == 2
\* longest symbol sequence the caller passes to encode
MaxLen == 3
\* largest integer the caller passes to decode or get_by_cdf directly
MaxCode == 20

\* the symbols a caller uses
Alphabet == {"a", "b", "c"}
\* the symbols a frequency mapping may hold ("c" is in no table)
TableSymbs == {"a", "b"}
\* frequencies a caller supplies: the positive ones, and zero (which the
\* constructor accepts as it accepts every other value)
Freqs == 0..MaxFreq
\* a frequency mapping holds at most this many symbols
TableSizes == 0..Cardinality(TableSymbs)

----------------------------------------------------------------------------
(* Python primitives.                                                      *)

\* divmod(a, b) for b # 0: floor division, remainder with the sign of b
PyDiv(a, b) == a \div b
PyMod(a, b) == a - b * (a \div b)

\* bisect.bisect_right(a, x): a is 1-indexed here, lo and hi are Python's
RECURSIVE BisectLoop(_, _, _, _)
BisectLoop(a, x, lo, hi) ==
    IF lo < hi
    THEN LET mid == (lo + hi) \div 2
         IN  IF x < a[mid + 1]
             THEN BisectLoop(a, x, lo, mid)
             ELSE BisectLoop(a, x, mid + 1, hi)
    ELSE lo

\* variant: bisect_left, which stops before the entries equal to x
RECURSIVE BisectLeftLoop(_, _, _, _)
BisectLeftLoop(a, x, lo, hi) ==
    IF lo < hi
    THEN LET mid == (lo + hi) \div 2
         IN  IF a[mid + 1] < x
             THEN BisectLeftLoop(a, x, mid + 1, hi)
             ELSE BisectLeftLoop(a, x, lo, mid)
    ELSE lo

bisect_left(a, x) == BisectLeftLoop(a, x, 0, Len(a))

bisect_right(a, x) == BisectLoop(a, x, 0, Len(a))

----------------------------------------------------------------------------
(* class Statistics                                                        *)

\* variant: the loop adds the frequency to total before it records the cdf
RECURSIVE InitLoop_late(_, _, _)
InitLoop_late(items, entries, total) ==
    IF items = <<>>
    THEN [entries |-> entries, total |-> total]
    ELSE LET symb == Head(items).symb
             prob == Head(items).prob
         IN  InitLoop_late(Tail(items),
                           Append(entries, [symb |-> symb, prob |-> prob,
                                            cdf |-> total + prob]),
                           total + prob)

\* the body of the for loop of Statistics.__init__, over the remaining items
RECURSIVE InitLoop(_, _, _)
InitLoop(items, entries, total) ==
    IF items = <<>>
    THEN [entries |-> entries, total |-> total]
    ELSE LET symb == Head(items).symb
             prob == Head(items).prob
         IN  InitLoop(Tail(items),
                      Append(entries, [symb |-> symb, prob |-> prob, cdf |-> total]),
                      total + prob)

\* variant: total starts at 0, without the reserved base value
StatisticsInit_base0(pd) == InitLoop(pd, <<>>, 0)

\* Statistics.__init__(prob_dict): total starts at 1
StatisticsInit(pd) == InitLoop(pd, <<>>, 1)

\* symb in self.stats
HasSymb(st, symb) == \E i \in 1..Len(st.entries) : st.entries[i].symb = symb

\* self.stats[symb] for a symbol that is present
GetItem(st, symb) ==
    st.entries[CHOOSE i \in 1..Len(st.entries) : st.entries[i].symb = symb]

\* placeholder where a call produced no entry
NoEntry == [symb |-> "", prob |-> 0, cdf |-> 0]

\* variant: the idx = 0 check is missing, so values[idx-1] is values[-1],
\* the last entry (IndexError on an empty table)
get_by_cdf_nocheck(st, cdf) ==
    LET values == st.entries
        idx    == bisect_right([i \in 1..Len(values) |-> values[i].cdf], cdf)
    IN  IF values = <<>>
        THEN [raised |-> "IndexError", value |-> NoEntry]
        ELSE [raised |-> "none",
              value |-> values[IF idx = 0 THEN Len(values) ELSE idx]]

\* Statistics.get_by_cdf(cdf)
get_by_cdf(st, cdf) ==
    LET values == st.entries
        idx    == bisect_right([i \in 1..Len(values) |-> values[i].cdf], cdf)
    IN  IF idx = 0
        THEN [raised |-> "ValueError", value |-> NoEntry]
        ELSE [raised |-> "none", value |-> values[idx]]

----------------------------------------------------------------------------
(* class FSECoder: one iteration of each loop.                             *)

\* variant: the offset added is the cdf without the reserved base value
encode_step_nobase(st, e, symb) ==
    IF ~HasSymb(st, symb)
    THEN [raised |-> "KeyError", enc |-> e]
    ELSE LET s == GetItem(st, symb)
         IN  IF s.prob = 0
             THEN [raised |-> "ZeroDivisionError", enc |-> e]
             ELSE [raised |-> "none",
                   enc |-> st.total * PyDiv(e, s.prob) + PyMod(e, s.prob) + s.cdf - 1]

\* body of the for loop of encode, for accumulator e and symbol symb
encode_step(st, e, symb) ==
    IF ~HasSymb(st, symb)
    THEN [raised |-> "KeyError", enc |-> e]
    ELSE LET s == GetItem(st, symb)
         IN  IF s.prob = 0
             THEN [raised |-> "ZeroDivisionError", enc |-> e]
             ELSE [raised |-> "none",
                   enc |-> st.total * PyDiv(e, s.prob) + PyMod(e, s.prob) + s.cdf]

\* variant: the entry's cdf is not subtracted
decode_step_nosub(st, e) ==
    IF st.total = 0
    THEN [raised |-> "ZeroDivisionError", enc |-> e, symb |-> ""]
    ELSE LET div == PyDiv(e, st.total)
             mod == PyMod(e, st.total)
             r   == get_by_cdf(st, mod)
         IN  IF r.raised # "none"
             THEN [raised |-> r.raised, enc |-> e, symb |-> ""]
             ELSE [raised |-> "none",
                   enc  |-> r.value.prob * div + mod,
                   symb |-> r.value.symb]

\* body of the while loop of decode, for accumulator e > 0
decode_step(st, e) ==
    IF st.total = 0
    THEN [raised |-> "ZeroDivisionError", enc |-> e, symb |-> ""]
    ELSE LET div == PyDiv(e, st.total)
             mod == PyMod(e, st.total)
             r   == get_by_cdf(st, mod)
         IN  IF r.raised # "none"
             THEN [raised |-> r.raised, enc |-> e, symb |-> ""]
             ELSE [raised |-> "none",
                   enc  |-> r.value.prob * div + mod - r.value.cdf,
                   symb |-> r.value.symb]

----------------------------------------------------------------------------
(* Inputs.                                                                 *)

\* sequences of length n over S
SeqsOfLen(S, n) == [1..n -> S]
SeqsUpTo(S, n) == UNION {SeqsOfLen(S, k) : k \in 0..n}

Distinct(s) == \A i, j \in 1..Len(s) : i # j => s[i] # s[j]

\* ordered frequency mappings: distinct symbols, any supplied frequency
FreqMappings ==
    {pd \in UNION {[1..n -> [symb : TableSymbs, prob : Freqs]] : n \in TableSizes} :
        Distinct([i \in 1..Len(pd) |-> pd[i].symb])}

NoRet == [kind |-> "none", int |-> 0, seq |-> <<>>, entry |-> NoEntry]
IntRet(n) == [kind |-> "int", int |-> n, seq |-> <<>>, entry |-> NoEntry]
SeqRet(s) == [kind |-> "seq", int |-> 0, seq |-> s, entry |-> NoEntry]
EntryRet(e) == [kind |-> "entry", int |-> 0, seq |-> <<>>, entry |-> e]

NoMemo == [set |-> FALSE, arg |-> <<>>, ret |-> 0]

----------------------------------------------------------------------------
(* The state machine.  A call's locals (pos, enc, out) are reset when the  *)
(* call ends.  memo is what the caller remembers of its last encode call   *)
(* that returned; it is kept across one further call and then dropped.     *)

\* FSECoder(probs): the coder right after construction
Init ==
    /\ prob_dict \in FreqMappings
    /\ stats = StatisticsInit(prob_dict)
    /\ pc = "idle"
    /\ last = "init"
    /\ symbs = <<>>
    /\ pos = 1
    /\ enc = 0
    /\ enc_arg = 0
    /\ out = <<>>
    /\ cdf_arg = 0
    /\ ret = NoRet
    /\ raised = "none"
    /\ chained = "fresh"
    /\ memo = NoMemo

\* the caller forgets its record once a second call follows the encode
KeepMemo == IF last = "encode" THEN memo ELSE NoMemo

\* a call coder.encode(s): s is any sequence over the alphabet ("fresh"),
\* the sequence the previous decode returned ("chained"), or the argument of
\* the remembered encode call once more ("again")
EncodeCall ==
    /\ pc = "idle"
    /\ \/ /\ \E s \in SeqsUpTo(Alphabet, MaxLen) : symbs' = s
          /\ chained' = "fresh"
          /\ enc_arg' = 0
          /\ memo' = NoMemo
       \/ /\ last = "decode" /\ raised = "none"
          /\ symbs' = ret.seq
          /\ chained' = "chained"
          /\ enc_arg' = enc_arg
          /\ memo' = NoMemo
       \/ /\ memo.set
          /\ symbs' = memo.arg
          /\ chained' = "again"
          /\ enc_arg' = 0
          /\ memo' = memo
    /\ pc' = "encode"
    /\ pos' = 1
    /\ enc' = 0
    /\ out' = <<>>
    /\ cdf_arg' = 0
    /\ ret' = NoRet
    /\ raised' = "none"
    /\ UNCHANGED <<prob_dict, stats, last>>

\* variant: a missing symbol is inserted with frequency 1 (a defaultdict-like
\* table) instead of raising KeyError
EncodeStep_inserting ==
    /\ pc = "encode"
    /\ pos <= Len(symbs)
    /\ stats' = IF HasSymb(stats, symbs[pos]) THEN stats
                ELSE [entries |-> Append(stats.entries,
                                         [symb |-> symbs[pos], prob |-> 1,
                                          cdf |-> stats.total]),
                      total |-> stats.total + 1]
    /\ LET r == encode_step(stats', enc, symbs[pos])
       IN  IF r.raised # "none"
           THEN /\ raised' = r.raised
                /\ pc' = "idle"
                /\ last' = "encode"
                /\ enc' = 0
                /\ pos' = 1
           ELSE /\ enc' = r.enc
                /\ pos' = pos + 1
                /\ UNCHANGED <<raised, pc, last>>
    /\ UNCHANGED <<prob_dict, symbs, enc_arg, out, cdf_arg, ret, chained, memo>>

\* one iteration of the for loop of encode
EncodeStep ==
    /\ pc = "encode"
    /\ pos <= Len(symbs)
    /\ LET r == encode_step(stats, enc, symbs[pos])
       IN  IF r.raised # "none"
           THEN /\ raised' = r.raised
                /\ pc' = "idle"
                /\ last' = "encode"
                /\ enc' = 0
                /\ pos' = 1
           ELSE /\ enc' = r.enc
                /\ pos' = pos + 1
                /\ UNCHANGED <<raised, pc, last>>
    /\ UNCHANGED <<prob_dict, stats, symbs, enc_arg, out, cdf_arg, ret, chained, memo>>

\* return enc
EncodeReturn ==
    /\ pc = "encode"
    /\ pos > Len(symbs)
    /\ ret' = IntRet(enc)
    /\ memo' = IF chained = "again" THEN memo
               ELSE [set |-> TRUE, arg |-> symbs, ret |-> enc]
    /\ pc' = "idle"
    /\ last' = "encode"
    /\ enc' = 0
    /\ pos' = 1
    /\ UNCHANGED <<prob_dict, stats, symbs, enc_arg, out, cdf_arg, raised, chained>>

\* a call coder.decode(n): n is any small non-negative integer ("fresh"), or
\* the integer the previous encode returned ("chained")
DecodeCall ==
    /\ pc = "idle"
    /\ \/ /\ \E n \in 0..MaxCode : enc_arg' = n /\ enc' = n
          /\ chained' = "fresh"
       \/ /\ last = "encode" /\ raised = "none"
          /\ enc_arg' = ret.int /\ enc' = ret.int
          /\ chained' = "chained"
    /\ memo' = KeepMemo
    /\ pc' = "decode"
    /\ symbs' = <<>>
    /\ pos' = 1
    /\ out' = <<>>
    /\ cdf_arg' = 0
    /\ ret' = NoRet
    /\ raised' = "none"
    /\ UNCHANGED <<prob_dict, stats, last>>

\* variant: the symbol is appended to the output instead of inserted at 0
DecodeStep_append ==
    /\ pc = "decode"
    /\ enc > 0
    /\ LET r == decode_step(stats, enc)
       IN  IF r.raised # "none"
           THEN /\ raised' = r.raised
                /\ pc' = "idle"
                /\ last' = "decode"
                /\ enc' = 0
                /\ out' = <<>>
           ELSE /\ enc' = r.enc
                /\ out' = Append(out, r.symb)
                /\ UNCHANGED <<raised, pc, last>>
    /\ UNCHANGED <<prob_dict, stats, symbs, pos, enc_arg, cdf_arg, ret, chained, memo>>

\* one iteration of the while loop of decode
DecodeStep ==
    /\ pc = "decode"
    /\ enc > 0
    /\ LET r == decode_step(stats, enc)
       IN  IF r.raised # "none"
           THEN /\ raised' = r.raised
                /\ pc' = "idle"
                /\ last' = "decode"
                /\ enc' = 0
                /\ out' = <<>>
           ELSE /\ enc' = r.enc
                /\ out' = <<r.symb>> \o out
                /\ UNCHANGED <<raised, pc, last>>
    /\ UNCHANGED <<prob_dict, stats, symbs, pos, enc_arg, cdf_arg, ret, chained, memo>>

\* return symbs
DecodeReturn ==
    /\ pc = "decode"
    /\ ~(enc > 0)
    /\ ret' = SeqRet(out)
    /\ pc' = "idle"
    /\ last' = "decode"
    /\ enc' = 0
    /\ out' = <<>>
    /\ UNCHANGED <<prob_dict, stats, symbs, pos, enc_arg, cdf_arg, raised, chained, memo>>

\* a direct call coder.stats.get_by_cdf(v)
GetByCdfCall ==
    /\ pc = "idle"
    /\ \E v \in (0 - 2)..MaxCode :
         LET r == get_by_cdf(stats, v)
         IN  /\ cdf_arg' = v
             /\ raised' = r.raised
             /\ ret' = IF r.raised = "none" THEN EntryRet(r.value) ELSE NoRet
    /\ last' = "get_by_cdf"
    /\ chained' = "fresh"
    /\ memo' = KeepMemo
    /\ symbs' = <<>>
    /\ enc_arg' = 0
    /\ UNCHANGED <<prob_dict, stats, pc, pos, enc, out>>

Next ==
    \/ EncodeCall
    \/ EncodeStep
    \/ EncodeReturn
    \/ DecodeCall
    \/ DecodeStep
    \/ DecodeReturn
    \/ GetByCdfCall

Spec == Init /\ [][Next]_vars

----------------------------------------------------------------------------
(* Vocabulary of the properties.                                           *)

\* a non-empty mapping of positive integer frequencies
Valid(pd) == pd # <<>> /\ \A i \in 1..Len(pd) : pd[i].prob >= 1

\* v lies in the half-open range [cdf, cdf + prob) of entry e
InRange(e, v) == e.cdf <= v /\ v < e.cdf + e.prob

RECURSIVE SumProb(_)
SumProb(pd) == IF pd = <<>> THEN 0 ELSE Head(pd).prob + SumProb(Tail(pd))

Returned(op) == pc = "idle" /\ last = op /\ raised = "none"
Ended(op) == pc = "idle" /\ last = op

----------------------------------------------------------------------------
\* C1: round trip.  For a table built from a non-empty mapping of positive
\* frequencies, decoding the integer that encode returned for a sequence of
\* table symbols returns exactly that sequence, in order; encode([]) is 0
\* and decode(0) is [].
C1_RoundTrip ==
    Valid(prob_dict) =>
        /\ (Ended("decode") /\ chained = "chained") =>
               /\ raised = "none"
               /\ ret = SeqRet(memo.arg)
        /\ (Ended("encode") /\ symbs = <<>>) => (raised = "none" /\ ret = IntRet(0))
        /\ (Ended("decode") /\ enc_arg = 0) => (raised = "none" /\ ret = SeqRet(<<>>))

\* a sequence of full length using both symbols of a two-symbol table came
\* back from decode
C1_Witness ==
    /\ Valid(prob_dict) /\ Len(prob_dict) = 2
    /\ Returned("decode") /\ chained = "chained"
    /\ Len(memo.arg) = MaxLen
    /\ \E i, j \in 1..Len(memo.arg) : memo.arg[i] # memo.arg[j]
    /\ ret.seq = memo.arg

\* C2: the table built from positive frequencies.  Every cdf is >= 1, each
\* entry's cdf + prob is the next entry's cdf, the last entry's cdf + prob is
\* total, total is 1 + the sum of the frequencies, and so every value of
\* [1, total) lies in exactly one entry's range [cdf, cdf + prob) and no
\* range leaves [1, total).
C2_TablePartition ==
    Valid(prob_dict) =>
        LET e == stats.entries
            n == Len(e)
        IN  /\ n = Len(prob_dict)
            /\ \A i \in 1..n : /\ e[i].symb = prob_dict[i].symb
                               /\ e[i].prob = prob_dict[i].prob
                               /\ e[i].cdf >= 1
            /\ \A i \in 1..(n - 1) : e[i].cdf + e[i].prob = e[i + 1].cdf
            /\ e[n].cdf + e[n].prob = stats.total
            /\ stats.total = 1 + SumProb(prob_dict)
            /\ \A v \in 1..(stats.total - 1) :
                   Cardinality({i \in 1..n : InRange(e[i], v)}) = 1
            /\ \A i \in 1..n : \A v \in 0..(stats.total + 1) :
                   InRange(e[i], v) => (1 <= v /\ v < stats.total)

\* a two-entry table whose entries have different, largest and smallest,
\* frequencies
C2_Witness ==
    /\ Valid(prob_dict) /\ Len(stats.entries) = 2
    /\ stats.entries[1].prob = MaxFreq
    /\ stats.entries[2].prob = 1
    /\ stats.total = MaxFreq + 2

\* C3 as stated: for every value in [0, total), get_by_cdf returns the
\* unique entry whose range contains the value (stated for validly built
\* tables, where it already fails: no range contains 0).
C3_Original ==
    (Valid(prob_dict) /\ Ended("get_by_cdf")
        /\ 0 <= cdf_arg /\ cdf_arg < stats.total) =>
        /\ raised = "none"
        /\ ret.kind = "entry"
        /\ InRange(ret.entry, cdf_arg)

\* C3 as amended: for a table built from positive frequencies and every
\* value in [1, total), get_by_cdf returns the unique entry whose range
\* contains the value; for the value 0, which no range contains, it raises.
C3_LookupInRange ==
    (Valid(prob_dict) /\ Ended("get_by_cdf")) =>
        /\ (1 <= cdf_arg /\ cdf_arg < stats.total) =>
               /\ raised = "none"
               /\ ret.kind = "entry"
               /\ \E i \in 1..Len(stats.entries) : stats.entries[i] = ret.entry
               /\ InRange(ret.entry, cdf_arg)
               /\ \A i \in 1..Len(stats.entries) :
                      InRange(stats.entries[i], cdf_arg) => stats.entries[i] = ret.entry
        /\ cdf_arg = 0 => (raised = "ValueError" /\ ret = NoRet)

\* the lookup returned the first entry of a two-entry table for the last
\* value of its range
C3_Witness ==
    /\ Valid(prob_dict) /\ Len(stats.entries) = 2
    /\ Returned("get_by_cdf")
    /\ stats.entries[1].prob >= 2
    /\ cdf_arg = stats.entries[2].cdf - 1
    /\ ret.entry = stats.entries[1]

\* C4 as stated: for a valid table, decode of any non-negative integer
\* returns a sequence and never raises.
C4_Original ==
    (Valid(prob_dict) /\ Ended("decode")) => (raised = "none" /\ ret.kind = "seq")

\* C4 as amended: for a valid table, an iteration of decode raises the
\* invalid-code error exactly when its remainder enc mod total is 0 (the
\* reserved base value, which no range contains; e.g. code = total) and
\* raises nothing else; decode of an integer that encode returned never
\* raises and returns a sequence.
C4_DecodeRaisesOnZeroRemainder ==
    [][Valid(prob_dict) =>
          /\ (pc = "decode" /\ enc > 0) =>
                 /\ (pc' = "idle") <=> (PyMod(enc, stats.total) = 0)
                 /\ (pc' = "idle") => (raised' = "ValueError" /\ ret' = NoRet)
          /\ (pc = "decode" /\ pc' = "idle" /\ chained = "chained") =>
                 (raised' = "none" /\ ret'.kind = "seq")]_vars

\* decode(total) raised after the caller passed it directly
C4_Witness ==
    /\ Valid(prob_dict)
    /\ Ended("decode") /\ chained = "fresh"
    /\ enc_arg = stats.total
    /\ raised = "ValueError"

\* C5 as stated: constructing from an empty mapping, or from one holding a
\* frequency <= 0, fails with a configuration error and yields no table.
C5_InvalidConfigRejected ==
    (last = "init" /\ ~Valid(prob_dict)) => raised = "ConfigurationError"

\* C6 as stated: if encode's argument holds a symbol that is not in the
\* table, the call fails with the unknown-symbol error (KeyError) and
\* returns no integer.
C6_UnknownSymbolFails ==
    (Ended("encode") /\ \E i \in 1..Len(symbs) : ~HasSymb(stats, symbs[i])) =>
        (raised = "KeyError" /\ ret = NoRet)

\* C7 as stated: get_by_cdf raises the invalid-code error for every value
\* outside every range, i.e. for every value that is negative or >= total
\* (stated for validly built tables, where it already fails).
C7_Original ==
    (Valid(prob_dict) /\ Ended("get_by_cdf")
        /\ \/ cdf_arg < 0
           \/ cdf_arg >= stats.total
           \/ \A i \in 1..Len(stats.entries) : ~InRange(stats.entries[i], cdf_arg)) =>
        (raised = "ValueError" /\ ret = NoRet)

\* C7 as amended: for a table built from positive frequencies, get_by_cdf
\* raises the invalid-code error exactly for the values below 1 (the
\* negative ones and 0); for a value >= total it does not raise but returns
\* the last entry.
C7_RaisesBelowFirstCdf ==
    (Valid(prob_dict) /\ Ended("get_by_cdf")) =>
        /\ (raised = "ValueError") <=> (cdf_arg < 1)
        /\ raised \in {"none", "ValueError"}
        /\ raised = "ValueError" => ret = NoRet
        /\ cdf_arg >= stats.total =>
               ret = EntryRet(stats.entries[Len(stats.entries)])

\* the lookup returned the last entry for a value beyond total
C7_Witness ==
    /\ Valid(prob_dict) /\ Len(stats.entries) = 2
    /\ Returned("get_by_cdf")
    /\ cdf_arg > stats.total
    /\ ret.entry = stats.entries[2]

\* C8: no hidden state.  No step of encode, decode or get_by_cdf, failing
\* ones included, changes the table (entries, order, prob, cdf, total), and
\* an encode call given the argument of an earlier encode call returns the
\* integer that call returned.
C8_NoHiddenState ==
    [][/\ stats' = stats
       /\ prob_dict' = prob_dict
       /\ (pc = "encode" /\ pc' = "idle" /\ chained = "again") =>
              (raised' = "none" /\ ret' = IntRet(memo.ret))]_vars

\* encode returned for a full-length argument it had been given before,
\* with the table as constructed
C8_Witness ==
    /\ Returned("encode") /\ chained = "again"
    /\ Len(symbs) = MaxLen
    /\ ret.int = memo.ret /\ ret.int > 0
    /\ stats = StatisticsInit(prob_dict)

\* C9: decode terminates.  For a valid table, every iteration of the decode
\* loop that completes its lookup leaves enc >= 0 and strictly smaller than
\* before, so after k iterations enc + k is at most the argument: at most
\* `argument' iterations are made.
C9_DecodeDecreases ==
    [][(Valid(prob_dict) /\ pc = "decode" /\ pc' = "decode") =>
          /\ enc' >= 0
          /\ enc' < enc
          /\ Len(out') = Len(out) + 1
          /\ enc' + Len(out') <= enc_arg]_vars

\* decode is in its loop, has completed two iterations and has more to do
C9_Witness ==
    /\ Valid(prob_dict)
    /\ pc = "decode"
    /\ Len(out) >= 2
    /\ enc > 0

\* C10: left inverse.  For a valid table, when decode(n) returned s for a
\* non-negative n, encode(s) returns n.
C10_EncodeOfDecode ==
    (Valid(prob_dict) /\ Ended("encode") /\ chained = "chained") =>
        (raised = "none" /\ ret = IntRet(enc_arg))

\* encode gave back the integer from which decode had produced a sequence
\* of two different symbols
C10_Witness ==
    /\ Valid(prob_dict)
    /\ Returned("encode") /\ chained = "chained"
    /\ Len(symbs) >= 2
    /\ symbs[1] # symbs[2]
    /\ ret.int = enc_arg /\ enc_arg > 0

====
